---- MODULE Spec2Model ----
(***************************************************************************)
(* Model of the PDF-to-image pipeline of app/services/pdf_converter.py and *)
(* of the two conversion endpoints of app/routers/pdf.py that call it.     *)
(*                                                                         *)
(* One request is followed from the upload to the HTTP response.  Every    *)
(* library call that can raise (fitz.open, get_pixmap, Pixmap.save,        *)
(* pytesseract, PIL, os.remove) either succeeds or raises, chosen          *)
(* nondeterministically; a failed write may leave a partial file behind.   *)
(* The static directory is the function fs from file names to file         *)
(* records.                                                                *)
(***************************************************************************)
EXTENDS Integers, Sequences, FiniteSets, TLC

\* ------------------------------------------------------------------ bounds
MaxPages == 3      \* pages of the uploaded document (Spec)
MaxImages == 3     \* images handed to a direct stitch call (SpecStitch)
MaxSide == 3       \* width and height of those images (SpecStitch)
ConcPages == 2     \* pages of each of their documents (SpecConc)

\* values of the dpi form field: negative, zero and the default, Form(300)
DefaultDpi == 300
DpiValues == {-72, 0, DefaultDpi}

\* sizes a page can be rendered at (non-square, so that a quarter turn shows)
RenderSizes == {<<2, 3>>, <<3, 2>>}

VARIABLES
    endpoint,      \* which handler serves the request
    contentType,   \* file.content_type of the upload
    doc,           \* the uploaded bytes: [openable, pages]
    dpi,           \* the dpi form field of the request
    pc,            \* position of the request in the code
    uploads,       \* state of pdf_path in the uploads directory
    fs,            \* the static directory: file name -> file record
    handle,        \* pdf_document: "unbound", "open" or "closed"
    page_num,      \* loop variable of convert_pdf_to_images (0-based)
    pix,           \* the pixmap of the page rendered last
    image_paths,   \* image_paths of convert_pdf_to_images
    ret,           \* outcome of convert_pdf_to_images
    exc,           \* the exception that is propagating, "none" if none
    idx,           \* position of the rollback / cleanup loop (1-based)
    osd,           \* what the detector reported to the last orient_image call
    orientFail,    \* where the last orient_image call raised, "none" if nowhere
    orientErr,     \* history: pages whose orient_image call raised
    cause,         \* history: the first fatal failure of the request
    removeRaised,  \* history: an os.remove of a page image has raised
    stitch_in,     \* image_paths argument of stitch_images_vertically
    images,        \* images of stitch_images_vertically: the sizes of the opened images
    imagesBound,   \* whether the local name images has been assigned
    imagesOpen,    \* whether the opened images are still open
    max_width, total_height, current_y,
    canvas,        \* size of stitched_image
    pastes,        \* history: the paste calls made, in order
    stitchRet,     \* outcome of stitch_images_vertically
    orchRet,       \* outcome of convert_pdf_to_stitched_image
    resp,          \* the HTTP response
    keep_file,     \* layout upload: the keep_file form field
    api_url,       \* layout upload: whether an API address is configured
    markdown_results, \* layout upload: pages in the remote API's answer
    req,           \* concurrent requests: request -> its local variables
    disk,          \* concurrent requests: the files on disk, [path, owner]
    foreign        \* history: a request touched a file written by another

vars == <<endpoint, contentType, doc, dpi, removeRaised, pc, uploads, fs, handle, page_num, pix,
          image_paths, ret, exc, idx, osd, orientFail, orientErr, cause,
          stitch_in, images, imagesBound, imagesOpen, max_width, total_height,
          current_y, canvas, pastes, stitchRet, orchRet, resp,
          keep_file, api_url, markdown_results, req, disk, foreign>>

rasterVars == <<handle, page_num, pix, image_paths, ret, osd, orientFail, orientErr>>
stitchVars == <<stitch_in, images, imagesBound, imagesOpen, max_width,
                total_height, current_y, canvas, pastes, stitchRet>>
inputVars == <<endpoint, contentType, doc, dpi>>
layoutVars == <<keep_file, api_url, markdown_results>>
\* the variables of the other specifications, which the pipeline leaves alone
concVars == <<req, disk, foreign>>
otherVars == <<layoutVars, concVars>>

\* --------------------------------------------------------------- file names
\* f"{base_filename}_page_{page_num + 1}.png"
ImageFilename_zeroBased(n) == <<"page", n>>
ImageFilename(n) == <<"page", n + 1>>

\* f"{base_filename}_stitched.png"
OutputFilename == <<"stitched", 0>>

NoPath == <<"none", 0>>

\* the names a request can touch in the output directory
MaxNames == IF MaxPages > MaxImages THEN MaxPages ELSE MaxImages
FileNames == {<<"page", i>> : i \in 0..MaxNames} \cup {OutputFilename}

\* ------------------------------------------------------------- file records
\* w, h: pixel size; rot: counter-clockwise rotation applied since rendering;
\* writes: how often the file was written (0: it does not exist);
\* intact: FALSE when a write failed half way; exif: EXIF orientation tag
\* (0: no tag).
NoFile == [w |-> 0, h |-> 0, rot |-> 0, writes |-> 0, intact |-> FALSE, exif |-> 0]
Exists(path) == fs[path].writes > 0

\* Pixmap.save: a fresh PNG of the pixmap's size, without EXIF data
PixSave(p) == [w |-> p[1], h |-> p[2], rot |-> 0, writes |-> 1, intact |-> TRUE, exif |-> 0]
PartialFile == [w |-> 0, h |-> 0, rot |-> 0, writes |-> 1, intact |-> FALSE, exif |-> 0]
NoPix == <<0, 0>>

NoRet == [kind |-> "none", val |-> <<>>]
NoPathRet == [kind |-> "none", val |-> NoPath]
NoResp == [status |-> 0, detail |-> "none"]

\* ------------------------------------------------------------- orient_image
OsdReports == {"raise", "nomatch", "0", "90", "180", "270"}

\* re.search(r'Rotate: (\d+)', osd) and int(angle_match.group(1))
Angle(report) ==
    CASE report = "0" -> 0
      [] report = "90" -> 90
      [] report = "180" -> 180
      [] report = "270" -> 270

\* the argument of img.rotate
RotateArg_sameAngle(angle) == angle
RotateArg(angle) == 360 - angle

\* Image.rotate(deg, expand=True) for a multiple of 90 degrees
Rotate(img, deg) ==
    LET d == deg % 360 IN
    [img EXCEPT !.w = IF d \in {90, 270} THEN img.h ELSE img.w,
                !.h = IF d \in {90, 270} THEN img.w ELSE img.h,
                !.rot = (img.rot + d) % 360]

\* ImageOps.exif_transpose: tags 5..8 exchange width and height; the tag is
\* removed from the result
ExifTranspose(img) ==
    [img EXCEPT !.w = IF img.exif \in 5..8 THEN img.h ELSE img.w,
                !.h = IF img.exif \in 5..8 THEN img.w ELSE img.h,
                !.exif = 0]

\* final_img.save(image_path)
Resave(img) == [img EXCEPT !.writes = @ + 1]
DamagedResave(img) == [img EXCEPT !.writes = @ + 1, !.intact = FALSE]

\* ------------------------------------------------------------------ Init
Endpoints == {"process_pdf", "process_pdf_stitched"}

IdleStitch ==
    /\ stitch_in = <<>>
    /\ images = <<>>
    /\ imagesBound = FALSE
    /\ imagesOpen = FALSE
    /\ max_width = 0
    /\ total_height = 0
    /\ current_y = 0
    /\ canvas = <<0, 0>>
    /\ pastes = <<>>
    /\ stitchRet = NoPathRet

IdleLayout ==
    /\ keep_file = FALSE
    /\ api_url = FALSE
    /\ markdown_results = 0

IdleConc ==
    /\ req = <<>>
    /\ disk = {}
    /\ foreign = FALSE

IdleRaster ==
    /\ handle = "unbound"
    /\ page_num = 0
    /\ pix = NoPix
    /\ image_paths = <<>>
    /\ ret = NoRet
    /\ osd = "none"
    /\ orientFail = "none"
    /\ orientErr = {}

Init ==
    /\ endpoint \in Endpoints
    /\ contentType \in {"application/pdf", "text/plain"}
    /\ doc \in [openable : BOOLEAN, pages : 0..MaxPages]
    /\ dpi \in DpiValues
    /\ pc = "start"
    /\ uploads = "absent"
    /\ fs = [n \in FileNames |-> NoFile]
    /\ IdleRaster
    /\ IdleStitch
    /\ exc = "none"
    /\ idx = 0
    /\ cause = "none"
    /\ removeRaised = FALSE
    /\ orchRet = NoPathRet
    /\ resp = NoResp
    /\ IdleLayout
    /\ IdleConc

\* ------------------------------------------------- endpoints: the upload
\* pdf.py 23-24: a content type other than application/pdf is refused
RejectContentType ==
    /\ pc = "start"
    /\ contentType # "application/pdf"
    /\ resp' = [status |-> 400, detail |-> "Invalid file type"]
    /\ pc' = "done"
    /\ UNCHANGED <<inputVars, otherVars, removeRaised, uploads, fs, rasterVars, stitchVars, exc, idx, cause, orchRet>>

\* pdf.py 32-37: the upload is written to pdf_path; a failure is not caught
SaveUpload ==
    /\ pc = "start"
    /\ contentType = "application/pdf"
    /\ \/ /\ uploads' = "present"
          /\ pc' = "convert"
          /\ UNCHANGED <<resp, cause, exc>>
       \/ /\ uploads' \in {"absent", "partial"}
          /\ cause' = "UploadError"
          /\ exc' = "UploadError"
          /\ resp' = [status |-> 500, detail |-> "Internal Server Error"]
          /\ pc' = "done"
    /\ UNCHANGED <<inputVars, otherVars, removeRaised, fs, rasterVars, stitchVars, idx, orchRet>>

\* ------------------------------------------------- convert_pdf_to_images
\* 48-51: image_paths = []; fitz.open(pdf_path)
OpenDocument ==
    /\ pc = "convert"
    /\ image_paths' = <<>>
    /\ IF doc.openable
       THEN /\ handle' = "open"
            /\ page_num' = 0
            /\ pc' = "loop"
            /\ UNCHANGED <<exc, cause, idx>>
       ELSE /\ exc' = "OpenError"
            /\ cause' = "OpenError"
            /\ idx' = 1
            /\ pc' = "rollback"
            /\ UNCHANGED <<handle, page_num>>
    /\ UNCHANGED <<inputVars, otherVars, removeRaised, uploads, fs, pix, ret, osd, orientFail, orientErr,
                   stitchVars, orchRet, resp>>

\* 53-57: load_page and get_pixmap(dpi=dpi) of the next page; dpi is handed
\* to the renderer as received, whatever its sign
LoadRender ==
    /\ pc = "loop"
    /\ page_num < doc.pages
    /\ \/ /\ \E sz \in RenderSizes : pix' = sz
          /\ pc' = "save"
          /\ UNCHANGED <<exc, cause, idx>>
       \/ /\ exc' = "RenderError"
          /\ cause' = "RenderError"
          /\ idx' = 1
          /\ pc' = "rollback"
          /\ UNCHANGED pix
    /\ UNCHANGED <<inputVars, otherVars, removeRaised, uploads, fs, handle, page_num, image_paths, ret,
                   osd, orientFail, orientErr, stitchVars, orchRet, resp>>

\* 59-63: pix.save(image_path); a failed save may have created the file
SavePixmap ==
    /\ pc = "save"
    /\ LET image_path == ImageFilename(page_num) IN
       \/ /\ fs' = [fs EXCEPT ![image_path] = PixSave(pix)]
          /\ pc' = "orient"
          /\ UNCHANGED <<exc, cause, idx>>
       \/ /\ \E left \in {NoFile, PartialFile} : fs' = [fs EXCEPT ![image_path] = left]
          /\ exc' = "WriteError"
          /\ cause' = "WriteError"
          /\ idx' = 1
          /\ pc' = "rollback"
    /\ UNCHANGED <<inputVars, otherVars, removeRaised, uploads, rasterVars, stitchVars, orchRet, resp>>

\* 12-38: orient_image(image_path).  The detector raises, reports no angle
\* or reports an angle; a non-zero angle rotates, transposes and rewrites
\* the file, each step of which can raise; every exception is caught.
orient_image(image_path) ==
    \E report \in OsdReports :
       /\ osd' = report
       /\ \/ /\ report = "raise"
             /\ orientFail' = "detect"
             /\ UNCHANGED fs
          \/ /\ report = "nomatch"
             /\ orientFail' = "none"
             /\ UNCHANGED fs
          \/ /\ report \notin {"raise", "nomatch"}
             /\ Angle(report) = 0
             /\ orientFail' = "none"
             /\ UNCHANGED fs
          \/ /\ report \notin {"raise", "nomatch"}
             /\ Angle(report) # 0
             /\ \/ /\ orientFail' = "none"
                   /\ fs' = [fs EXCEPT ![image_path] =
                                Resave(ExifTranspose(Rotate(@, RotateArg(Angle(report)))))]
                \/ /\ orientFail' = "correct"
                   /\ UNCHANGED fs
                \/ /\ orientFail' = "save"
                   /\ \/ UNCHANGED fs
                      \/ fs' = [fs EXCEPT ![image_path] = DamagedResave(@)]

\* 66-69: orient_image(image_path), then image_paths.append(image_path)
OrientImage_skipOnError ==
    /\ pc = "orient"
    /\ orient_image(ImageFilename(page_num))
    /\ orientErr' = IF orientFail' # "none"
                    THEN orientErr \cup {page_num + 1} ELSE orientErr
    /\ image_paths' = IF orientFail' # "none" THEN image_paths
                      ELSE Append(image_paths, ImageFilename(page_num))
    /\ page_num' = page_num + 1
    /\ pc' = "loop"
    /\ UNCHANGED <<inputVars, otherVars, removeRaised, uploads, handle, pix, ret, exc, idx, cause,
                   stitchVars, orchRet, resp>>
OrientImage ==
    /\ pc = "orient"
    /\ orient_image(ImageFilename(page_num))
    /\ orientErr' = IF orientFail' # "none"
                    THEN orientErr \cup {page_num + 1} ELSE orientErr
    /\ image_paths' = Append(image_paths, ImageFilename(page_num))
    /\ page_num' = page_num + 1
    /\ pc' = "loop"
    /\ UNCHANGED <<inputVars, otherVars, removeRaised, uploads, handle, pix, ret, exc, idx, cause,
                   stitchVars, orchRet, resp>>

\* 53, 82: the loop ends and image_paths is the value to return
LoopDone ==
    /\ pc = "loop"
    /\ page_num >= doc.pages
    /\ ret' = [kind |-> "value", val |-> image_paths]
    /\ pc' = "finally"
    /\ UNCHANGED <<inputVars, otherVars, removeRaised, uploads, fs, handle, page_num, pix, image_paths,
                   exc, idx, osd, orientFail, orientErr, cause, stitchVars,
                   orchRet, resp>>

\* 74-76: one iteration of the clean-up loop of the except clause; an
\* exception of os.remove leaves the except clause
RollbackStep ==
    /\ pc = "rollback"
    /\ idx <= Len(image_paths)
    /\ LET path == image_paths[idx] IN
       IF Exists(path)
       THEN \/ /\ fs' = [fs EXCEPT ![path] = NoFile]
               /\ idx' = idx + 1
               /\ UNCHANGED <<pc, ret, exc, removeRaised>>
            \/ /\ exc' = "RemoveError"
               /\ removeRaised' = TRUE
               /\ ret' = [kind |-> "raise", val |-> <<>>]
               /\ pc' = "finally"
               /\ UNCHANGED <<fs, idx>>
       ELSE /\ idx' = idx + 1
            /\ UNCHANGED <<fs, pc, ret, exc, removeRaised>>
    /\ UNCHANGED <<inputVars, otherVars, uploads, handle, page_num, pix, image_paths,
                   osd, orientFail, orientErr, cause, stitchVars, orchRet, resp>>

\* 77: return [] once the clean-up loop is through; the exception is dropped
RollbackDone ==
    /\ pc = "rollback"
    /\ idx > Len(image_paths)
    /\ exc' = "none"
    /\ ret' = [kind |-> "value", val |-> <<>>]
    /\ pc' = "finally"
    /\ UNCHANGED <<inputVars, otherVars, removeRaised, uploads, fs, handle, page_num, pix, image_paths,
                   idx, osd, orientFail, orientErr, cause, stitchVars, orchRet, resp>>

\* bool(pdf_document): fitz.Document defines __len__ (its page count), which
\* is what Python's truth test uses
Truthy(d) == d.pages > 0

\* 78-82: the finally clause closes the document if the name is bound and
\* the document is truthy; then the call returns to its caller
CloseDocument ==
    /\ pc = "finally"
    /\ handle' = IF handle # "unbound" /\ Truthy(doc) THEN "closed" ELSE handle
    /\ pc' = "converted"
    /\ UNCHANGED <<inputVars, otherVars, removeRaised, uploads, fs, page_num, pix, image_paths, ret, exc,
                   idx, osd, orientFail, orientErr, cause, stitchVars, orchRet, resp>>

\* ------------------------------------------------- process_pdf_endpoint
\* pdf.py 40-59: back from convert_pdf_to_images.  An exception that left it
\* is not caught and skips the removal of the upload; otherwise the upload
\* is removed and an empty list is answered with status 500.
ProcessPdfFinish ==
    /\ pc = "converted"
    /\ endpoint = "process_pdf"
    /\ IF ret.kind = "raise"
       THEN /\ resp' = [status |-> 500, detail |-> "Internal Server Error"]
            /\ UNCHANGED uploads
       ELSE /\ uploads' = "absent"
            /\ resp' = IF ret.val = <<>>
                       THEN [status |-> 500, detail |-> "Failed to convert PDF to images."]
                       ELSE [status |-> 200, detail |-> "PDF processed successfully"]
    /\ pc' = "done"
    /\ UNCHANGED <<inputVars, otherVars, removeRaised, fs, rasterVars, stitchVars, exc, idx, cause, orchRet>>

\* ----------------------------------------- convert_pdf_to_stitched_image
\* 170-181 and 192-194: back from convert_pdf_to_images; an empty list
\* raises ValueError, every exception is logged and raised again
OrchAfterConvert_noEmptyCheck ==
    /\ pc = "converted"
    /\ endpoint = "process_pdf_stitched"
    /\ IF ret.kind = "raise"
       THEN /\ orchRet' = [kind |-> "raise", val |-> NoPath]
            /\ pc' = "orch_exit"
            /\ UNCHANGED <<exc, cause, stitch_in>>
       ELSE /\ stitch_in' = ret.val
            /\ pc' = "stitch"
            /\ UNCHANGED <<exc, cause, orchRet>>
    /\ UNCHANGED <<inputVars, otherVars, removeRaised, uploads, fs, rasterVars, idx, images, imagesBound,
                   imagesOpen, max_width, total_height, current_y, canvas,
                   pastes, stitchRet, resp>>
OrchAfterConvert ==
    /\ pc = "converted"
    /\ endpoint = "process_pdf_stitched"
    /\ IF ret.kind = "raise"
       THEN /\ orchRet' = [kind |-> "raise", val |-> NoPath]
            /\ pc' = "orch_exit"
            /\ UNCHANGED <<exc, cause, stitch_in>>
       ELSE IF ret.val = <<>>
       THEN /\ exc' = "ValueError: Failed to convert PDF to images"
            /\ cause' = IF cause = "none" THEN "NoPages" ELSE cause
            /\ orchRet' = [kind |-> "raise", val |-> NoPath]
            /\ pc' = "orch_exit"
            /\ UNCHANGED stitch_in
       ELSE /\ stitch_in' = ret.val
            /\ pc' = "stitch"
            /\ UNCHANGED <<exc, cause, orchRet>>
    /\ UNCHANGED <<inputVars, otherVars, removeRaised, uploads, fs, rasterVars, idx, images, imagesBound,
                   imagesOpen, max_width, total_height, current_y, canvas,
                   pastes, stitchRet, resp>>

\* ---------------------------------------------- stitch_images_vertically
\* max(max_width, width)
Max2(a, b) == IF a > b THEN a ELSE b

\* x_offset = (max_width - width) // 2
XOffset_noHalving(mw, width) == mw - width
XOffset(mw, width) == (mw - width) \div 2

\* the except clause 149-155 as the stitcher's exit: the opened images are
\* closed and the exception is raised again
StitchRaise(e) ==
    /\ exc' = e
    /\ cause' = IF cause = "none" THEN e ELSE cause
    /\ imagesOpen' = FALSE
    /\ stitchRet' = [kind |-> "raise", val |-> NoPath]
    /\ pc' = "stitch_ret"

\* 97-106: the empty list raises ValueError before images is assigned, so
\* the except clause's "for img in images" raises UnboundLocalError in its
\* place; otherwise images, max_width and total_height are initialised
StitchBegin ==
    /\ pc = "stitch"
    /\ IF stitch_in = <<>>
       THEN /\ exc' = IF imagesBound THEN "ValueError: No images to stitch"
                      ELSE "UnboundLocalError"
            /\ cause' = IF cause = "none" THEN "ValueError: No images to stitch" ELSE cause
            /\ stitchRet' = [kind |-> "raise", val |-> NoPath]
            /\ pc' = "stitch_ret"
            /\ UNCHANGED <<images, imagesBound, max_width, total_height>>
       ELSE /\ images' = <<>>
            /\ imagesBound' = TRUE
            /\ max_width' = 0
            /\ total_height' = 0
            /\ pc' = "stitch_open"
            /\ UNCHANGED <<exc, cause, stitchRet>>
    /\ UNCHANGED <<inputVars, otherVars, removeRaised, uploads, fs, rasterVars, idx, stitch_in, imagesOpen,
                   current_y, canvas, pastes, orchRet, resp>>

\* 108-116: one iteration of the opening loop; a damaged file cannot be opened
StitchOpen ==
    /\ pc = "stitch_open"
    /\ Len(images) < Len(stitch_in)
    /\ LET image_path == stitch_in[Len(images) + 1]
           img == fs[image_path] IN
       \/ /\ img.writes > 0
          /\ img.intact
          /\ images' = Append(images, <<img.w, img.h>>)
          /\ imagesOpen' = TRUE
          /\ max_width' = Max2(max_width, img.w)
          /\ total_height' = total_height + img.h
          /\ UNCHANGED <<pc, exc, cause, stitchRet>>
       \/ /\ StitchRaise("ImageOpenError")
          /\ UNCHANGED <<images, max_width, total_height>>
    /\ UNCHANGED <<inputVars, otherVars, removeRaised, uploads, fs, rasterVars, idx, stitch_in, imagesBound,
                   current_y, canvas, pastes, orchRet, resp>>

\* 121-124: Image.new('RGB', (max_width, total_height)); current_y = 0
StitchNew ==
    /\ pc = "stitch_open"
    /\ Len(images) = Len(stitch_in)
    /\ \/ /\ canvas' = <<max_width, total_height>>
          /\ current_y' = 0
          /\ pc' = "stitch_paste"
          /\ UNCHANGED <<exc, cause, stitchRet, imagesOpen>>
       \/ /\ StitchRaise("AllocError")
          /\ UNCHANGED <<canvas, current_y>>
    /\ UNCHANGED <<inputVars, otherVars, removeRaised, uploads, fs, rasterVars, idx, stitch_in, images,
                   imagesBound, max_width, total_height, pastes, orchRet, resp>>

\* 125-134: one iteration of the pasting loop
StitchPaste ==
    /\ pc = "stitch_paste"
    /\ Len(pastes) < Len(images)
    /\ LET i == Len(pastes) + 1
           width == images[i][1]
           height == images[i][2] IN
       \/ /\ pastes' = Append(pastes, [img |-> i, x |-> XOffset(max_width, width),
                                       y |-> current_y, w |-> width, h |-> height])
          /\ current_y' = current_y + height
          /\ UNCHANGED <<pc, exc, cause, stitchRet, imagesOpen>>
       \/ /\ StitchRaise("PasteError")
          /\ UNCHANGED <<pastes, current_y>>
    /\ UNCHANGED <<inputVars, otherVars, removeRaised, uploads, fs, rasterVars, idx, stitch_in, images,
                   imagesBound, max_width, total_height, canvas, orchRet, resp>>

\* 137-147: the canvas is saved as {base_filename}_stitched.png, the images
\* are closed and the path is returned; a failed save may leave a partial file
StitchSave ==
    /\ pc = "stitch_paste"
    /\ Len(pastes) = Len(images)
    /\ \/ /\ fs' = [fs EXCEPT ![OutputFilename] = PixSave(canvas)]
          /\ imagesOpen' = FALSE
          /\ stitchRet' = [kind |-> "value", val |-> OutputFilename]
          /\ pc' = "stitch_ret"
          /\ UNCHANGED <<exc, cause>>
       \/ /\ StitchRaise("SaveError")
          /\ \E left \in {NoFile, PartialFile} : fs' = [fs EXCEPT ![OutputFilename] = left]
    /\ UNCHANGED <<inputVars, otherVars, removeRaised, uploads, rasterVars, idx, stitch_in, images,
                   imagesBound, max_width, total_height, current_y, canvas,
                   pastes, orchRet, resp>>

\* 181-185 and 192-194: back from the stitcher; its exception is logged and
\* raised again, its path starts the clean-up loop
OrchAfterStitch ==
    /\ pc = "stitch_ret"
    /\ endpoint = "process_pdf_stitched"
    /\ IF stitchRet.kind = "raise"
       THEN /\ orchRet' = [kind |-> "raise", val |-> NoPath]
            /\ pc' = "orch_exit"
            /\ UNCHANGED idx
       ELSE /\ idx' = 1
            /\ pc' = "cleanup"
            /\ UNCHANGED orchRet
    /\ UNCHANGED <<inputVars, otherVars, removeRaised, uploads, fs, rasterVars, stitchVars, exc, cause, resp>>

\* 185-188: one iteration of the loop removing the page images
CleanupStep_keep ==
    /\ pc = "cleanup"
    /\ idx <= Len(ret.val)
    /\ idx' = idx + 1
    /\ UNCHANGED <<inputVars, otherVars, removeRaised, uploads, fs, rasterVars, stitchVars, exc, cause,
                   orchRet, pc, resp>>
CleanupStep ==
    /\ pc = "cleanup"
    /\ idx <= Len(ret.val)
    /\ LET image_path == ret.val[idx] IN
       IF Exists(image_path)
       THEN \/ /\ fs' = [fs EXCEPT ![image_path] = NoFile]
               /\ idx' = idx + 1
               /\ UNCHANGED <<pc, exc, cause, orchRet, removeRaised>>
            \/ /\ exc' = "RemoveError"
               /\ removeRaised' = TRUE
               /\ cause' = IF cause = "none" THEN "RemoveError" ELSE cause
               /\ orchRet' = [kind |-> "raise", val |-> NoPath]
               /\ pc' = "orch_exit"
               /\ UNCHANGED <<fs, idx>>
       ELSE /\ idx' = idx + 1
            /\ UNCHANGED <<fs, pc, exc, cause, orchRet, removeRaised>>
    /\ UNCHANGED <<inputVars, otherVars, uploads, rasterVars, stitchVars, resp>>

\* 190: return stitched_image_path
CleanupDone ==
    /\ pc = "cleanup"
    /\ idx > Len(ret.val)
    /\ orchRet' = [kind |-> "value", val |-> stitchRet.val]
    /\ pc' = "orch_exit"
    /\ UNCHANGED <<inputVars, otherVars, removeRaised, uploads, fs, rasterVars, stitchVars, exc, idx, cause, resp>>

\* ----------------------------------------- process_pdf_stitched_endpoint
\* pdf.py 160-187: every exception becomes status 500 with the exception's
\* text; the finally clause removes the upload
StitchedFinish ==
    /\ pc = "orch_exit"
    /\ resp' = IF orchRet.kind = "raise"
               THEN [status |-> 500, detail |-> exc]
               ELSE [status |-> 200, detail |-> "stitched image generated"]
    /\ uploads' = "absent"
    /\ pc' = "done"
    /\ UNCHANGED <<inputVars, otherVars, removeRaised, fs, rasterVars, stitchVars, exc, idx, cause, orchRet>>

\* ------------------------------------------------------- specifications
Next ==
    \/ RejectContentType
    \/ SaveUpload
    \/ OpenDocument
    \/ LoadRender
    \/ SavePixmap
    \/ OrientImage
    \/ LoopDone
    \/ RollbackStep
    \/ RollbackDone
    \/ CloseDocument
    \/ ProcessPdfFinish
    \/ OrchAfterConvert
    \/ StitchBegin
    \/ StitchOpen
    \/ StitchNew
    \/ StitchPaste
    \/ StitchSave
    \/ OrchAfterStitch
    \/ CleanupStep
    \/ CleanupDone
    \/ StitchedFinish

Spec == Init /\ [][Next]_vars

\* A direct call of stitch_images_vertically on any list of at most
\* MaxImages existing images, the empty list included
StitchSizes == (1..MaxSide) \X (1..MaxSide)

InitStitch ==
    /\ endpoint = "direct"
    /\ contentType = "application/pdf"
    /\ doc = [openable |-> TRUE, pages |-> 0]
    /\ dpi = DefaultDpi
    /\ pc = "stitch"
    /\ uploads = "absent"
    /\ \E n \in 0..MaxImages :
       \E sizes \in [1..n -> StitchSizes] :
          /\ fs = [name \in FileNames |->
                     IF name[1] = "page" /\ name[2] \in 1..n
                     THEN PixSave(sizes[name[2]]) ELSE NoFile]
          /\ stitch_in \in {[i \in 1..n |-> <<"page", i>>]}
    /\ images = <<>>
    /\ imagesBound = FALSE
    /\ imagesOpen = FALSE
    /\ max_width = 0
    /\ total_height = 0
    /\ current_y = 0
    /\ canvas = <<0, 0>>
    /\ pastes = <<>>
    /\ stitchRet = NoPathRet
    /\ IdleRaster
    /\ exc = "none"
    /\ idx = 0
    /\ cause = "none"
    /\ removeRaised = FALSE
    /\ orchRet = NoPathRet
    /\ resp = NoResp
    /\ IdleLayout
    /\ IdleConc

NextStitch ==
    \/ StitchBegin
    \/ StitchOpen
    \/ StitchNew
    \/ StitchPaste
    \/ StitchSave

SpecStitch == InitStitch /\ [][NextStitch]_vars

\* ------------------------------------------------ layout_parsing_upload
\* layout_parsing.py 141-149
AllowedTypes == {"application/pdf", "image/jpeg", "image/png", "image/gif",
                 "image/webp", "image/bmp", "image/tiff"}

\* f"{original_filename}_{unique_id}{file_ext}", and the uploaded name
\* without the token, which the handler never writes
SavedFilename == <<"saved", 0>>
OriginalFilename == <<"original", 0>>
LayoutNames == {SavedFilename, OriginalFilename}

\* shutil.copyfileobj(file.file, buffer): the upload as a file in static
UploadedFile == [w |-> 0, h |-> 0, rot |-> 0, writes |-> 1, intact |-> TRUE, exif |-> 0]

\* what call_layout_parsing_api can raise, and which of it is a ValueError
ApiFailures == {"NoApiUrl", "ReadError", "RequestException", "ParseError",
                "TypeError", "ApiError"}
ValueErrors == {"NoApiUrl", "ReadError", "ParseError", "ApiError"}

pipelineVars == <<doc, dpi, removeRaised, uploads, rasterVars, stitchVars, idx, orchRet>>

InitLayout ==
    /\ endpoint = "layout_parsing_upload"
    /\ contentType \in {"application/pdf", "image/png", "text/plain"}
    /\ keep_file \in BOOLEAN
    /\ api_url \in BOOLEAN
    /\ markdown_results = 0
    /\ doc = [openable |-> TRUE, pages |-> 0]
    /\ dpi = DefaultDpi
    /\ pc = "lp_start"
    /\ uploads = "absent"
    /\ fs = [n \in LayoutNames |-> NoFile]
    /\ IdleRaster
    /\ IdleStitch
    /\ exc = "none"
    /\ idx = 0
    /\ cause = "none"
    /\ removeRaised = FALSE
    /\ orchRet = NoPathRet
    /\ resp = NoResp
    /\ IdleConc

\* 151-155: a content type outside allowed_types is refused before the try
LayoutReject ==
    /\ pc = "lp_start"
    /\ contentType \notin AllowedTypes
    /\ resp' = [status |-> 400, detail |-> "Unsupported file type"]
    /\ pc' = "done"
    /\ UNCHANGED <<endpoint, contentType, layoutVars, concVars, pipelineVars, fs, exc, cause>>

\* 160-172: saved_path is generated and, inside the try, the upload is
\* written to it; a failed write may leave nothing or a partial file
LayoutSave ==
    /\ pc = "lp_start"
    /\ contentType \in AllowedTypes
    /\ \/ /\ fs' = [fs EXCEPT ![SavedFilename] = UploadedFile]
          /\ pc' = "lp_call"
          /\ UNCHANGED <<exc, cause>>
       \/ /\ fs' \in {fs, [fs EXCEPT ![SavedFilename] = PartialFile]}
          /\ exc' = "SaveError"
          /\ cause' = "SaveError"
          /\ pc' = "lp_except"
    /\ UNCHANGED <<endpoint, contentType, layoutVars, concVars, pipelineVars, resp>>

\* 174-190, layout_parsing_service.py 131-241: the API address is looked
\* up, the saved file is read back through its /static/ URL, the remote
\* API is called and its answer is parsed
LayoutCallApi ==
    /\ pc = "lp_call"
    /\ \/ /\ ~api_url
          /\ exc' = "NoApiUrl"
          /\ UNCHANGED markdown_results
       \/ /\ api_url
          /\ Exists(SavedFilename)
          /\ exc' \in ApiFailures \ {"NoApiUrl"}
          /\ UNCHANGED markdown_results
       \/ /\ api_url
          /\ Exists(SavedFilename)
          /\ markdown_results' \in 0..MaxPages
          /\ UNCHANGED exc
    /\ cause' = exc'
    /\ pc' = IF exc' = "none" THEN "lp_respond" ELSE "lp_except"
    /\ UNCHANGED <<endpoint, contentType, keep_file, api_url, concVars, pipelineVars, fs, resp>>

\* 192-207: extract_full_markdown and the 200 response, which names the
\* file's URL when keep_file is set
LayoutRespond ==
    /\ pc = "lp_respond"
    /\ resp' = [status |-> 200,
                detail |-> IF keep_file THEN "file_url" ELSE "no file_url"]
    /\ pc' = "lp_finally"
    /\ UNCHANGED <<endpoint, contentType, layoutVars, concVars, pipelineVars, fs, exc, cause>>

\* 209-213: a ValueError becomes a 400, any other exception a 500
LayoutExcept ==
    /\ pc = "lp_except"
    /\ resp' = [status |-> IF exc \in ValueErrors THEN 400 ELSE 500, detail |-> exc]
    /\ exc' = "HTTPException"
    /\ pc' = "lp_finally"
    /\ UNCHANGED <<endpoint, contentType, layoutVars, concVars, pipelineVars, fs, cause>>

\* 215-220: the finally clause removes saved_path unless keep_file is set
LayoutFinally_keepInverted ==
    /\ pc = "lp_finally"
    /\ fs' = IF keep_file /\ Exists(SavedFilename)
             THEN [fs EXCEPT ![SavedFilename] = NoFile]
             ELSE fs
    /\ pc' = "done"
    /\ UNCHANGED <<endpoint, contentType, layoutVars, concVars, pipelineVars, exc, cause, resp>>

LayoutFinally ==
    /\ pc = "lp_finally"
    /\ fs' = IF ~keep_file /\ Exists(SavedFilename)
             THEN [fs EXCEPT ![SavedFilename] = NoFile]
             ELSE fs
    /\ pc' = "done"
    /\ UNCHANGED <<endpoint, contentType, layoutVars, concVars, pipelineVars, exc, cause, resp>>

NextLayout ==
    \/ LayoutReject
    \/ LayoutSave
    \/ LayoutCallApi
    \/ LayoutRespond
    \/ LayoutExcept
    \/ LayoutFinally

SpecLayout == InitLayout /\ [][NextLayout]_vars

\* ------------------------------------------- requests running concurrently
\* File names are sequences of symbols, so that names built from different
\* parts can be compared for equality; a path starts with its directory.
\* the two requests in flight at the same time
Requests == {"A", "B"}

\* str(uuid.uuid4()): a token no request has drawn before; the tokens are
\* numbered in the order in which they are drawn
Uuid(id) == <<"uuid", ToString(id)>>

\* file.filename of the uploads: the same plain name for everybody, or a name
\* that already contains what the handler would append for token 1
UploadNames == {<<"a", ".pdf">>, <<"a", "_", "uuid", "1", ".pdf">>}
Extensions == {".pdf", ".png"}

\* os.path.splitext(name)[0]
Stem(name) ==
    IF Len(name) > 0 /\ name[Len(name)] \in Extensions
    THEN SubSeq(name, 1, Len(name) - 1)
    ELSE name

\* os.path.basename(path)
Basename(path) == Tail(path)

\* pdf.py 28-30: f"{original_filename}_{unique_id}.pdf" in UPLOADS_DIR
pdf_filename_noToken(filename, id) == Stem(filename) \o <<".pdf">>
pdf_filename(filename, id) == Stem(filename) \o <<"_">> \o Uuid(id) \o <<".pdf">>
pdf_path(filename, id) == <<"uploads/">> \o pdf_filename(filename, id)

\* pdf_converter.py 51 and 178
base_filename(pdf) == Stem(Basename(pdf))

\* pdf_converter.py 59-60: f"{base_filename}_page_{page_num + 1}.png"
image_path(pdf, n) ==
    <<"static/">> \o base_filename(pdf) \o <<"_page_", ToString(n + 1), ".png">>

\* pdf_converter.py 137-138: f"{base_filename}_stitched.png"
output_path(pdf) == <<"static/">> \o base_filename(pdf) \o <<"_stitched", ".png">>

\* the disk: who wrote the file at a path last
OnDisk(path) == \E f \in disk : f.path = path
Foreign(r, path) == \E f \in disk : f.path = path /\ f.owner # r
Written(r, path) == {f \in disk : f.path # path} \cup {[path |-> path, owner |-> r]}
Removed(path) == {f \in disk : f.path # path}

soloVars == <<endpoint, contentType, pc, fs, exc, cause, resp, layoutVars, pipelineVars>>

InitConc ==
    /\ req \in [Requests -> [pc : {"begin"}, endpoint : Endpoints,
                             filename : UploadNames, unique_id : {0},
                             pdf_path : {<<>>}, image_paths : {<<>>}, i : {0}]]
    /\ disk = {}
    /\ foreign = FALSE
    /\ endpoint = "concurrent"
    /\ contentType = "application/pdf"
    /\ doc = [openable |-> TRUE, pages |-> ConcPages]
    /\ dpi = DefaultDpi
    /\ pc = "concurrent"
    /\ uploads = "absent"
    /\ fs = [n \in FileNames |-> NoFile]
    /\ IdleRaster
    /\ IdleStitch
    /\ exc = "none"
    /\ idx = 0
    /\ cause = "none"
    /\ removeRaised = FALSE
    /\ orchRet = NoPathRet
    /\ resp = NoResp
    /\ IdleLayout

\* pdf.py 26-30 (and 147-151): the token is drawn and pdf_path is built
ConcBegin(r) ==
    /\ req[r].pc = "begin"
    /\ LET id == Cardinality({q \in Requests : req[q].unique_id # 0}) + 1 IN
          req' = [req EXCEPT ![r].unique_id = id,
                             ![r].pdf_path = pdf_path(req[r].filename, id),
                             ![r].pc = "upload"]
    /\ UNCHANGED <<disk, foreign, soloVars>>

\* pdf.py 32-37: open(pdf_path, "wb") and copy
ConcSaveUpload(r) ==
    /\ req[r].pc = "upload"
    /\ foreign' = (foreign \/ Foreign(r, req[r].pdf_path))
    /\ disk' = Written(r, req[r].pdf_path)
    /\ req' = [req EXCEPT ![r].pc = "open"]
    /\ UNCHANGED soloVars

\* pdf_converter.py 48-51: fitz.open(pdf_path) reads the upload
ConcOpen(r) ==
    /\ req[r].pc = "open"
    /\ foreign' = (foreign \/ Foreign(r, req[r].pdf_path))
    /\ req' = [req EXCEPT ![r].image_paths = <<>>, ![r].pc = "render"]
    /\ UNCHANGED <<disk, soloVars>>

\* pdf_converter.py 53-64: the next page is rendered and written
ConcSavePage(r) ==
    /\ req[r].pc = "render"
    /\ Len(req[r].image_paths) < ConcPages
    /\ LET path == image_path(req[r].pdf_path, Len(req[r].image_paths)) IN
          /\ foreign' = (foreign \/ Foreign(r, path))
          /\ disk' = Written(r, path)
    /\ req' = [req EXCEPT ![r].pc = "orient"]
    /\ UNCHANGED soloVars

\* pdf_converter.py 54-57, 71-73: the next page cannot be rendered
ConcRenderFail(r) ==
    /\ req[r].pc = "render"
    /\ Len(req[r].image_paths) < ConcPages
    /\ req' = [req EXCEPT ![r].i = 1, ![r].pc = "rollback"]
    /\ UNCHANGED <<disk, foreign, soloVars>>

\* pdf_converter.py 12-38, 66-69: orient_image reads the page image, may
\* write it again, and the path is appended
ConcOrient(r) ==
    /\ req[r].pc = "orient"
    /\ LET path == image_path(req[r].pdf_path, Len(req[r].image_paths)) IN
          /\ foreign' = (foreign \/ Foreign(r, path))
          /\ disk' \in {disk, Written(r, path)}
          /\ req' = [req EXCEPT ![r].image_paths = Append(@, path),
                                ![r].pc = "render"]
    /\ UNCHANGED soloVars

\* pdf_converter.py 53, 82; pdf.py 40 and pdf_converter.py 172-181
ConcLoopDone(r) ==
    /\ req[r].pc = "render"
    /\ Len(req[r].image_paths) = ConcPages
    /\ req' = [req EXCEPT ![r].i = 1,
                          ![r].pc = IF req[r].endpoint = "process_pdf_stitched"
                                    THEN "stitch" ELSE "remove_pdf"]
    /\ UNCHANGED <<disk, foreign, soloVars>>

\* pdf_converter.py 74-76: the rollback removes a listed image
ConcRollback(r) ==
    /\ req[r].pc = "rollback"
    /\ req[r].i <= Len(req[r].image_paths)
    /\ LET path == req[r].image_paths[req[r].i] IN
          /\ foreign' = (foreign \/ Foreign(r, path))
          /\ disk' = Removed(path)
    /\ req' = [req EXCEPT ![r].i = @ + 1]
    /\ UNCHANGED soloVars

\* pdf_converter.py 77-82: return []
ConcRollbackDone(r) ==
    /\ req[r].pc = "rollback"
    /\ req[r].i > Len(req[r].image_paths)
    /\ req' = [req EXCEPT ![r].image_paths = <<>>, ![r].pc = "remove_pdf"]
    /\ UNCHANGED <<disk, foreign, soloVars>>

\* pdf_converter.py 108-110: Image.open reads a page image
ConcStitchOpen(r) ==
    /\ req[r].pc = "stitch"
    /\ req[r].i <= Len(req[r].image_paths)
    /\ foreign' = (foreign \/ Foreign(r, req[r].image_paths[req[r].i]))
    /\ req' = [req EXCEPT ![r].i = @ + 1]
    /\ UNCHANGED <<disk, soloVars>>

\* pdf_converter.py 137-139: the stitched image is written
ConcStitchSave(r) ==
    /\ req[r].pc = "stitch"
    /\ req[r].i > Len(req[r].image_paths)
    /\ LET path == output_path(req[r].pdf_path) IN
          /\ foreign' = (foreign \/ Foreign(r, path))
          /\ disk' = Written(r, path)
    /\ req' = [req EXCEPT ![r].i = 1, ![r].pc = "cleanup"]
    /\ UNCHANGED soloVars

\* pdf_converter.py 185-188: the page images are removed
ConcCleanup(r) ==
    /\ req[r].pc = "cleanup"
    /\ req[r].i <= Len(req[r].image_paths)
    /\ LET path == req[r].image_paths[req[r].i] IN
          /\ foreign' = (foreign \/ Foreign(r, path))
          /\ disk' = Removed(path)
    /\ req' = [req EXCEPT ![r].i = @ + 1]
    /\ UNCHANGED soloVars

\* pdf_converter.py 190
ConcCleanupDone(r) ==
    /\ req[r].pc = "cleanup"
    /\ req[r].i > Len(req[r].image_paths)
    /\ req' = [req EXCEPT ![r].pc = "remove_pdf"]
    /\ UNCHANGED <<disk, foreign, soloVars>>

\* pdf.py 43-44 and 184-187: the upload is removed
ConcRemovePdf(r) ==
    /\ req[r].pc = "remove_pdf"
    /\ foreign' = (foreign \/ Foreign(r, req[r].pdf_path))
    /\ disk' = Removed(req[r].pdf_path)
    /\ req' = [req EXCEPT ![r].pc = "done"]
    /\ UNCHANGED soloVars

NextConc ==
    \/ \E r \in Requests : ConcBegin(r)
    \/ \E r \in Requests : ConcSaveUpload(r)
    \/ \E r \in Requests : ConcOpen(r)
    \/ \E r \in Requests : ConcSavePage(r)
    \/ \E r \in Requests : ConcRenderFail(r)
    \/ \E r \in Requests : ConcOrient(r)
    \/ \E r \in Requests : ConcLoopDone(r)
    \/ \E r \in Requests : ConcRollback(r)
    \/ \E r \in Requests : ConcRollbackDone(r)
    \/ \E r \in Requests : ConcStitchOpen(r)
    \/ \E r \in Requests : ConcStitchSave(r)
    \/ \E r \in Requests : ConcCleanup(r)
    \/ \E r \in Requests : ConcCleanupDone(r)
    \/ \E r \in Requests : ConcRemovePdf(r)

SpecConc == InitConc /\ [][NextConc]_vars

\* ------------------------------------------------------------ properties
PageFiles == {name \in FileNames : name[1] = "page"}

\* the list convert_pdf_to_images owes a document of n pages
AllPages(n) == [i \in 1..n |-> <<"page", i>>]

\* the file of the page that the loop has just finished, and that page as
\* Pixmap.save wrote it
LastPath == <<"page", page_num>>
AfterOrient == pc = "loop" /\ page_num >= 1

RasterFailures == {"OpenError", "RenderError", "WriteError", "NoPages"}
StitchFailures == {"ImageOpenError", "AllocError", "PasteError", "SaveError"}

\* C1: when page k fails in the per-page loop (render or write), no page
\* image file of the call is left in the output directory once the call has
\* returned, the file of page k included.
C1_Rollback ==
    (pc = "converted" /\ cause \in {"RenderError", "WriteError"})
        => \A name \in PageFiles : ~Exists(name)

\* C2: when convert_pdf_to_stitched_image fails at the rasterization or the
\* stitching stage, every page image the rasterizer produced is deleted when
\* the failure reaches the caller, and that failure is the original one.
\* Stated for the runs in which no os.remove has raised, so that the page
\* images are judged where every deletion that was attempted succeeded.
C2_OrchestratorCleanup ==
    (pc = "orch_exit" /\ orchRet.kind = "raise" /\ exc # "RemoveError"
            /\ cause \in RasterFailures \cup StitchFailures)
        => /\ \A i \in 1..Len(image_paths) : ~Exists(image_paths[i])
           /\ exc = IF cause \in RasterFailures
                    THEN "ValueError: Failed to convert PDF to images" ELSE cause

\* C3: stitching the empty list fails with the "No images to stitch" error
\* as the error the caller receives, and writes no file.
C3_EmptyStitch ==
    (pc = "stitch_ret" /\ stitch_in = <<>>)
        => /\ stitchRet.kind = "raise"
           /\ exc = "ValueError: No images to stitch"
           /\ \A name \in FileNames : ~Exists(name)

\* C4: convert_pdf_to_images returns all N page images or the empty list,
\* the empty list after any failure in the per-page loop, and no exception
\* leaves the call.
C4_AllOrNothing ==
    pc = "converted"
        => /\ ret.kind = "value"
           /\ ret.val \in {<<>>, AllPages(doc.pages)}
           /\ (cause # "none" => ret.val = <<>>)

\* C5: when no step fails on an N-page document, convert_pdf_to_images
\* returns exactly the N names _page_1 .. _page_N in page order, and each of
\* these files exists when the call returns.
C5_AllPagesInOrder ==
    (pc = "converted" /\ cause = "none")
        => /\ ret.kind = "value"
           /\ Len(ret.val) = doc.pages
           /\ \A i \in 1..doc.pages : ret.val[i] = <<"page", i>> /\ Exists(<<"page", i>>)

C5_Witness ==
    /\ pc = "converted"
    /\ cause = "none"
    /\ doc.pages >= 2
    /\ Len(ret.val) = doc.pages

\* C6: after convert_pdf_to_stitched_image has returned successfully, every
\* page image file is deleted and the stitched composite is the only file of
\* the request in the output directory.
C6_StitchedSuccess ==
    (pc \in {"orch_exit", "done"} /\ orchRet.kind = "value")
        => /\ orchRet.val = OutputFilename
           /\ fs[OutputFilename].intact
           /\ \A name \in FileNames : Exists(name) <=> name = OutputFilename

C6_Witness ==
    /\ pc = "orch_exit"
    /\ orchRet.kind = "value"
    /\ Len(ret.val) >= 2

\* C7: a successful stitch of images (w_i, h_i) has a canvas of width
\* max(w_i) and height sum(h_i) and pastes image i, in input order, at
\* ((max(w_i) - w_i) div 2, sum of h_j for j < i): the pastes tile the full
\* height without gap or overlap and skip no image.
C7_StitchGeometry ==
    (pc = "stitch_ret" /\ stitchRet.kind = "value")
        => LET n == Len(stitch_in)
               W(i) == fs[stitch_in[i]].w
               H(i) == fs[stitch_in[i]].h
               maxW == CHOOSE m \in {W(i) : i \in 1..n} : \A i \in 1..n : W(i) <= m
               above[k \in 0..n] == IF k = 0 THEN 0 ELSE above[k - 1] + H(k)
           IN  /\ canvas = <<maxW, above[n]>>
               /\ fs[OutputFilename].w = maxW
               /\ fs[OutputFilename].h = above[n]
               /\ Len(pastes) = n
               /\ \A i \in 1..n :
                     /\ pastes[i].img = i
                     /\ pastes[i].w = W(i) /\ pastes[i].h = H(i)
                     /\ pastes[i].x = (maxW - W(i)) \div 2
                     /\ pastes[i].y = above[i - 1]
                     /\ pastes[i].y + pastes[i].h =
                            IF i < n THEN pastes[i + 1].y ELSE canvas[2]

C7_Witness ==
    /\ pc = "stitch_ret"
    /\ stitchRet.kind = "value"
    /\ Len(pastes) >= 2
    /\ \E i \in 1..Len(pastes) : (canvas[1] - pastes[i].w) % 2 = 1

\* C8 as claimed: whenever orient_image raises for page j, at detection or at
\* correction, the file of page j is left as rendered, and the call still
\* returns all N page images.
C8_OrientFailureLeavesFile ==
    /\ (AfterOrient /\ orientFail # "none") => fs[LastPath] = PixSave(pix)
    /\ (pc = "converted" /\ cause = "none" /\ orientErr # {})
           => ret = [kind |-> "value", val |-> AllPages(doc.pages)]

\* C8 amended: when detection raises, or correction raises before the file
\* is rewritten, the file of page j is left as rendered; whenever orient_image
\* raises, a failed rewrite included, the other pages are still rasterized and
\* the call returns all N page images, page j among them.
C8_OrientFailureNonFatal ==
    /\ (AfterOrient /\ orientFail \in {"detect", "correct"}) => fs[LastPath] = PixSave(pix)
    /\ (AfterOrient /\ orientFail # "none")
           => /\ Exists(LastPath)
              /\ Len(image_paths) = page_num
              /\ image_paths[page_num] = LastPath
    /\ (pc = "converted" /\ cause = "none" /\ orientErr # {})
           => /\ ret = [kind |-> "value", val |-> AllPages(doc.pages)]
              /\ \A j \in orientErr : Exists(<<"page", j>>)

C8_Witness ==
    /\ pc = "converted"
    /\ cause = "none"
    /\ doc.pages = 3
    /\ orientErr = {2}
    /\ fs[<<"page", 2>>] = PixSave(<<2, 3>>)

\* C9: a report of angle 0 or of no angle leaves the file unwritten; a report
\* of 90, 180 or 270 rotates the image by (360 - angle) mod 360 with canvas
\* expansion: 90 gives a rotation by 270 with width and height exchanged, 180
\* keeps the dimensions.
C9_OrientationMapping ==
    AfterOrient
        => LET f == fs[LastPath]
               r == PixSave(pix)
           IN  /\ osd \in {"0", "nomatch"} => f = r
               /\ (osd \in {"90", "180", "270"} /\ orientFail = "none")
                     => /\ f.writes = 2 /\ f.intact
                        /\ osd = "90" => f.rot = 270 /\ f.w = r.h /\ f.h = r.w
                        /\ osd = "180" => f.rot = 180 /\ f.w = r.w /\ f.h = r.h
                        /\ osd = "270" => f.rot = 90 /\ f.w = r.h /\ f.h = r.w

C9_Witness ==
    /\ AfterOrient
    /\ osd = "90"
    /\ orientFail = "none"
    /\ fs[LastPath].rot = 270
    /\ fs[LastPath].w # pix[1]

\* C10: bytes that cannot be opened as a PDF are answered with a client-side
\* failure (4xx), unlike a page that fails to render or a failed stitch,
\* which are answered with a server-side failure (5xx).
C10_BadInputDistinct ==
    pc = "done"
        => /\ cause = "OpenError" => resp.status \in 400..499
           /\ cause \in {"RenderError", "WriteError"} \cup StitchFailures
                 => resp.status \in 500..599

\* C11: a request whose dpi is zero or negative is rejected before any page
\* is rendered and before any page image file is created.
C11_DpiValidated ==
    dpi <= 0
        => /\ pix = NoPix
           /\ pc \notin {"save", "orient"}
           /\ \A name \in PageFiles : ~Exists(name)

\* C13: when an os.remove of the rollback loop of convert_pdf_to_images
\* raises, the call still reports the original failure as the empty list, the
\* removal error does not surface, and the loop goes on to the remaining
\* page images.
C13_RollbackRemoveNotMasking ==
    (pc = "converted" /\ removeRaised)
        => /\ ret = [kind |-> "value", val |-> <<>>]
           /\ exc # "RemoveError"
           /\ idx > Len(image_paths)

\* C14: once a conversion request has finished, on whatever path, the
\* uploaded PDF no longer exists in the uploads directory.
C14_UploadNotRetained ==
    pc = "done" => uploads = "absent"

\* C15: when convert_pdf_to_images returns, the document handle is closed if
\* the open succeeded, and no close was attempted if the open failed.
C15_HandleReleased ==
    pc = "converted"
        => /\ doc.openable => handle = "closed"
           /\ ~doc.openable => handle = "unbound"

\* C16: in stitched mode, when the rasterizer has yielded no pages,
\* convert_pdf_to_stitched_image fails, with the conversion-failed error
\* where the rasterizer returned the empty list, the stitcher is never
\* invoked and no stitched file is written.
C16_NoPagesNoStitch ==
    (endpoint = "process_pdf_stitched" /\ ret.kind # "none" /\ ret.val = <<>>
            /\ pc \notin {"finally", "converted"})
        => /\ pc \in {"orch_exit", "done"}
           /\ orchRet.kind = "raise"
           /\ ret.kind = "value" => exc = "ValueError: Failed to convert PDF to images"
           /\ stitchRet.kind = "none"
           /\ ~imagesBound
           /\ ~Exists(OutputFilename)

C16_Witness ==
    /\ endpoint = "process_pdf_stitched"
    /\ pc = "orch_exit"
    /\ ret = [kind |-> "value", val |-> <<>>]
    /\ cause = "RenderError"
    /\ page_num >= 1
    /\ exc = "ValueError: Failed to convert PDF to images"

\* C17: once a request to layout_parsing_upload_endpoint has finished, on
\* any path, the static directory holds no file of the request when keep_file
\* is false; when keep_file is true it holds one at most at the path
\* generated for the request, and it holds the complete upload there after a
\* 200 response.  (os.remove of saved_path itself is taken to succeed.)
C17_LayoutUploadRetention ==
    (endpoint = "layout_parsing_upload" /\ pc = "done")
        => /\ uploads = "absent"
           /\ ~Exists(OriginalFilename)
           /\ ~keep_file => ~Exists(SavedFilename)
           /\ (keep_file /\ resp.status = 200) => fs[SavedFilename] = UploadedFile
           /\ (keep_file /\ cause \in ApiFailures \ {"NoApiUrl"})
                  => fs[SavedFilename] = UploadedFile

\* a request without keep_file whose saved file was written and whose remote
\* call failed has finished
C17_Witness ==
    /\ endpoint = "layout_parsing_upload"
    /\ pc = "done"
    /\ ~keep_file
    /\ cause = "RequestException"
    /\ resp.status = 500
    /\ ~Exists(SavedFilename)

\* the paths a request that has drawn its token writes, reads or deletes
PathsOf(r) ==
    {req[r].pdf_path, output_path(req[r].pdf_path)}
        \cup {image_path(req[r].pdf_path, n) : n \in 0..(ConcPages - 1)}
Started(r) == req[r].unique_id # 0

\* C12: for any two conversion requests running concurrently, also when both
\* upload a file of the same name, the uploaded-PDF path, the page image paths
\* and the stitched image path of one all differ from those of the other, and
\* under no interleaving does a request overwrite, read or delete a file that
\* another request wrote.
C12_NoCollisions ==
    endpoint = "concurrent"
        => /\ ~foreign
           /\ \A r1 \in Requests : \A r2 \in Requests \ {r1} :
                 (Started(r1) /\ Started(r2)) => PathsOf(r1) \cap PathsOf(r2) = {}
           /\ \A f \in disk : f.path \in PathsOf(f.owner)

\* two requests that uploaded the same file name both have files on disk,
\* one of them a page image and the other its stitched image
C12_Witness ==
    /\ endpoint = "concurrent"
    /\ req["A"].filename = req["B"].filename
    /\ req["A"].pc = "orient"
    /\ req["B"].pc = "cleanup"
    /\ OnDisk(image_path(req["A"].pdf_path, 0))
    /\ OnDisk(output_path(req["B"].pdf_path))

====
